---- MODULE Spec2Model ----
(***************************************************************************)
(* Model of the mesh generation of ModelGeo.ipynb: the node grid, the two  *)
(* beam passes and the column pass, one step per iteration of the nested   *)
(* loops, over the building parameters of the "Input Variables" cell.      *)
(*                                                                         *)
(* Python's true division (/) yields a non-integer whenever the divisor    *)
(* does not divide the dividend, so node identifiers are modelled as exact *)
(* rationals <<numerator, denominator>> in lowest terms; an identifier     *)
(* with denominator 1 is a whole number.  The parameters are drawn from    *)
(* positive integers, which reach every ratio the formulas depend on.      *)
(***************************************************************************)
EXTENDS Integers, FiniteSets, Sequences, TLC

\* ------------------------------------------------------------------ bounds
MaxStories == 3
MaxHeight == 2
MaxLen == 3
MaxBay == 2
MaxSpacing == 2
ParLen == 2
MaxReruns == 1

\* ------------------------------------------------------------- arithmetic
RECURSIVE GCD(_, _)
GCD(a, b) == IF b = 0 THEN a ELSE GCD(b, a % b)

\* a rational in lowest terms (numerator >= 0, denominator > 0)
Norm(n, d) == LET g == GCD(n, d) IN <<n \div g, d \div g>>

\* Python's a / b on two positive numbers
TrueDiv(a, b) == Norm(a, b)

RInt(n) == <<n, 1>>

RAdd(p, q) == Norm(p[1] * q[2] + q[1] * p[2], p[2] * q[2])

RMul(p, q) == Norm(p[1] * q[1], p[2] * q[2])

\* math.ceil
Ceil(p) == (p[1] + p[2] - 1) \div p[2]

\* floor(id / 1000), the level a reader recovers from an identifier
Floor(p) == p[1] \div p[2]

VARIABLES storyHeight, numStories, x_length, y_length,
          baySizeX, baySizeY, beamSpacingX, beamSpacingY,
          NODES, BEAMS, COLUMNS, pc, i, j, k

params == <<storyHeight, numStories, x_length, y_length,
            baySizeX, baySizeY, beamSpacingX, beamSpacingY>>

vars == <<storyHeight, numStories, x_length, y_length,
          baySizeX, baySizeY, beamSpacingX, beamSpacingY,
          NODES, BEAMS, COLUMNS, pc, i, j, k>>

\* a dict assignment d[key] = val: the last write to a key wins
Put(d, key, val) ==
    [n \in DOMAIN d \cup {key} |-> IF n = key THEN val ELSE d[n]]

EmptyDict == [n \in {} |-> 0]

\* ------------------------------------------------------------ loop bounds
\* range(1, math.ceil(numStories+1)): levels 1..numStories
NodeLevels == Ceil(RInt(numStories + 1)) - 1

\* range(1, math.ceil(numStories)): stories 1..numStories-1
ElemLevels == Ceil(RInt(numStories)) - 1

\* range(1, math.ceil(x_length/beamSpacingX)+2): x-lines 1..nx
nx == Ceil(TrueDiv(x_length, beamSpacingX)) + 1

\* range(1, math.ceil(y_length/beamSpacingY)+2): y-lines 1..ny
ny == Ceil(TrueDiv(y_length, beamSpacingY)) + 1

\* range(1, math.ceil(x_length/baySizeX)+2)
nbx == Ceil(TrueDiv(x_length, baySizeX)) + 1

\* range(1, math.ceil(y_length/baySizeY)+2)
nby == Ceil(TrueDiv(y_length, baySizeY)) + 1

\* the raw offset between consecutive x-lines: y_length/beamSpacingY+1
RowStride == RAdd(TrueDiv(y_length, beamSpacingY), RInt(1))

\* ------------------------------------------------------------------ nodes
\* n=(1000*i)+(j-1)*(y_length/beamSpacingY+1)+k
NodeId(ii, jj, kk) ==
    RAdd(RAdd(RInt(1000 * ii), RMul(RInt(jj - 1), RowStride)), RInt(kk))

\* (variant: the elevation of the top of story ii)
NodeCoord_StoryTop(ii, jj, kk) ==
    <<(jj - 1) * beamSpacingX, (kk - 1) * beamSpacingY, ii * storyHeight>>

\* [x,y,z]
NodeCoord(ii, jj, kk) ==
    <<(jj - 1) * beamSpacingX, (kk - 1) * beamSpacingY, (ii - 1) * storyHeight>>

\* ------------------------------------------------------------------ beams
\* fixA='FFFFFR', fixB='FFFFFR': the string as its six characters
BeamFix == <<"F", "F", "F", "F", "F", "R">>

\* (variant: the beams' end-release code given to the columns)
ColumnFix_Released == <<"F", "F", "F", "F", "F", "R">>

\* fixA='FFFFFF', fixB='FFFFFF'
ColumnFix == <<"F", "F", "F", "F", "F", "F">>

Element(a, b, fix) ==
    [nodeA |-> a, nodeB |-> b, typ |-> 1, sectID |-> 1, rot |-> 0,
     fixA |-> fix, fixB |-> fix,
     offAX |-> 0, offAY |-> 0, offAZ |-> 0,
     offBX |-> 0, offBY |-> 0, offBZ |-> 0, cbl |-> 0, tc |-> 0]

\* pass A: mID=(10000*(i+1))+(1000*j)+k
BeamAId(ii, jj, kk) == 10000 * (ii + 1) + 1000 * jj + kk

\* (variant: the loop index taken for the level)
BeamNodeA_LoopLevel(ii, jj, kk) ==
    RAdd(RAdd(RInt(1000 * ii), RInt(kk)), RMul(RInt(jj - 1), RowStride))

\* nodeA=(1000*(i+1))+k+(j-1)*(y_length/beamSpacingY+1)
BeamNodeA(ii, jj, kk) ==
    RAdd(RAdd(RInt(1000 * (ii + 1)), RInt(kk)), RMul(RInt(jj - 1), RowStride))

\* pass A: nodeB=nodeA+1
BeamANodeB(a) == RAdd(a, RInt(1))

\* pass B: mID=(10000*(i+1))+(100*j)+k
BeamBId(ii, jj, kk) == 10000 * (ii + 1) + 100 * jj + kk

\* (variant: the rounded-up line count taken for the row stride)
BeamBNodeB_CeilStride(a) == RAdd(a, RInt(ny))

\* pass B: nodeB=nodeA+(y_length/beamSpacingY+1)
BeamBNodeB(a) == RAdd(a, RowStride)

\* ---------------------------------------------------------------- columns
\* mID=(100000*(i))+(1000*j)+k
ColumnId(ii, jj, kk) == 100000 * ii + 1000 * jj + kk

\* (variant: the ratio of spacing to bay size taken upside down)
ColumnNodeA_InverseRatio(ii, jj, kk) ==
    RAdd(RAdd(RInt(1000 * ii),
              RAdd(RInt(1), RMul(RInt(kk - 1), TrueDiv(beamSpacingY, baySizeY)))),
         RMul(RInt(jj - 1), RowStride))

\* nodeA=(1000*i)+(1+(k-1)*(baySizeY/beamSpacingY))+(j-1)*(y_length/beamSpacingY+1)
ColumnNodeA(ii, jj, kk) ==
    RAdd(RAdd(RInt(1000 * ii),
              RAdd(RInt(1), RMul(RInt(kk - 1), TrueDiv(baySizeY, beamSpacingY)))),
         RMul(RInt(jj - 1), RowStride))

\* (variant: the next level taken to be a hundred away)
ColumnNodeB_Hundred(a) == RAdd(a, RInt(100))

\* nodeB=nodeA+1000
ColumnNodeB(a) == RAdd(a, RInt(1000))

\* ------------------------------------------------------------ the program
\* the loop variables after the body of iteration (i, j, k) of a nest whose
\* two inner ranges are 1..jmax and 1..kmax
Advance(jmax, kmax) ==
    IF k < kmax THEN i' = i /\ j' = j /\ k' = k + 1
    ELSE IF j < jmax THEN i' = i /\ j' = j + 1 /\ k' = 1
    ELSE i' = i + 1 /\ j' = 1 /\ k' = 1

Restart == i' = 1 /\ j' = 1 /\ k' = 1

TypeParams ==
    /\ storyHeight \in 1..MaxHeight
    /\ numStories \in 1..MaxStories
    /\ x_length \in 1..MaxLen
    /\ y_length \in 1..MaxLen
    /\ baySizeX \in 1..MaxBay
    /\ baySizeY \in 1..MaxBay
    /\ beamSpacingX \in 1..MaxSpacing
    /\ beamSpacingY \in 1..MaxSpacing

Start ==
    /\ NODES = EmptyDict
    /\ BEAMS = EmptyDict
    /\ COLUMNS = EmptyDict
    /\ pc = "nodes"
    /\ i = 1 /\ j = 1 /\ k = 1

Init == TypeParams /\ Start

\* one iteration of the node loop
GenerateNode ==
    /\ pc = "nodes"
    /\ i <= NodeLevels
    /\ NODES' = Put(NODES, NodeId(i, j, k), NodeCoord(i, j, k))
    /\ Advance(nx, ny)
    /\ UNCHANGED <<params, BEAMS, COLUMNS, pc>>

\* the node loop is exhausted; the beam cell starts with BEAMS={}
NodesDone ==
    /\ pc = "nodes"
    /\ i > NodeLevels
    /\ BEAMS' = EmptyDict
    /\ pc' = "beamsA"
    /\ Restart
    /\ UNCHANGED <<params, NODES, COLUMNS>>

\* one iteration of the first beam loop (beams running in y)
GenerateBeamA ==
    /\ pc = "beamsA"
    /\ i <= ElemLevels
    /\ LET a == BeamNodeA(i, j, k)
       IN  BEAMS' = Put(BEAMS, BeamAId(i, j, k), Element(a, BeamANodeB(a), BeamFix))
    /\ Advance(nx, ny - 1)
    /\ UNCHANGED <<params, NODES, COLUMNS, pc>>

BeamsADone ==
    /\ pc = "beamsA"
    /\ i > ElemLevels
    /\ pc' = "beamsB"
    /\ Restart
    /\ UNCHANGED <<params, NODES, BEAMS, COLUMNS>>

\* one iteration of the second beam loop (beams running in x)
GenerateBeamB ==
    /\ pc = "beamsB"
    /\ i <= ElemLevels
    /\ LET a == BeamNodeA(i, j, k)
       IN  BEAMS' = Put(BEAMS, BeamBId(i, j, k), Element(a, BeamBNodeB(a), BeamFix))
    /\ Advance(nx - 1, ny)
    /\ UNCHANGED <<params, NODES, COLUMNS, pc>>

\* the beam cell is finished; the column cell starts with COLUMNS={}
BeamsBDone ==
    /\ pc = "beamsB"
    /\ i > ElemLevels
    /\ COLUMNS' = EmptyDict
    /\ pc' = "columns"
    /\ Restart
    /\ UNCHANGED <<params, NODES, BEAMS>>

\* one iteration of the column loop
GenerateColumn ==
    /\ pc = "columns"
    /\ i <= ElemLevels
    /\ LET a == ColumnNodeA(i, j, k)
       IN  COLUMNS' = Put(COLUMNS, ColumnId(i, j, k), Element(a, ColumnNodeB(a), ColumnFix))
    /\ Advance(nbx, nby)
    /\ UNCHANGED <<params, NODES, BEAMS, pc>>

ColumnsDone ==
    /\ pc = "columns"
    /\ i > ElemLevels
    /\ pc' = "done"
    /\ UNCHANGED <<params, NODES, BEAMS, COLUMNS, i, j, k>>

Next ==
    \/ GenerateNode
    \/ NodesDone
    \/ GenerateBeamA
    \/ BeamsADone
    \/ GenerateBeamB
    \/ BeamsBDone
    \/ GenerateColumn
    \/ ColumnsDone

Spec == Init /\ [][Next]_vars

\* the program started on one given parameter set
StartWith(p) ==
    /\ storyHeight = p[1] /\ numStories = p[2]
    /\ x_length = p[3] /\ y_length = p[4]
    /\ baySizeX = p[5] /\ baySizeY = p[6]
    /\ beamSpacingX = p[7] /\ beamSpacingY = p[8]
    /\ Start

\* a building ten beam spacings long in x: eleven x-lines of two nodes
InitLongRow == StartWith(<<1, 3, 10, 1, 1, 1, 1, 1>>)

SpecLongRow == InitLongRow /\ [][Next]_vars

\* a building with 3 x-lines of 334 nodes: 1002 nodes per level
InitCapacity == StartWith(<<1, 2, 2, 333, 2, 333, 1, 1>>)

SpecCapacity == InitCapacity /\ [][Next]_vars

\* a building of a hundred bays in x: 101 bay lines
InitManyBays == StartWith(<<1, 3, 100, 1, 1, 1, 100, 1>>)

SpecManyBays == InitManyBays /\ [][Next]_vars

\* the input variables as the notebook sets them
InitExample == StartWith(<<18, 4, 120, 120, 30, 30, 30, 10>>)

SpecExample == InitExample /\ [][Next]_vars

\* a parameter set whose story height is not positive (and whose story count
\* may be zero); the other parameters are positive
InitInvalid ==
    /\ storyHeight \in {-1, 0}
    /\ numStories \in 0..MaxStories
    /\ x_length \in 1..MaxLen
    /\ y_length \in 1..MaxLen
    /\ baySizeX \in 1..MaxBay
    /\ baySizeY \in 1..MaxBay
    /\ beamSpacingX \in 1..MaxSpacing
    /\ beamSpacingY \in 1..MaxSpacing
    /\ Start

SpecInvalid == InitInvalid /\ [][Next]_vars

\* ------------------------------------------- the generators side by side
\* The three cells as three processes, each with its own copy of the loop
\* variables: pc, i, j and k hold one field per generator, and pc.reruns
\* counts the cells that were run again.  A step is one loop iteration.
ParSmallParams ==
    /\ storyHeight = 1 /\ numStories = 2
    /\ x_length = 1 /\ baySizeX = 1 /\ beamSpacingX = 1
    /\ y_length \in 1..ParLen
    /\ baySizeY \in 1..MaxBay
    /\ beamSpacingY \in 1..MaxSpacing

\* eleven x-lines: pass B reuses identifiers of pass A
ParLongRowParams ==
    /\ storyHeight = 1 /\ numStories = 2
    /\ x_length = 10 /\ baySizeX = 10 /\ beamSpacingX = 1
    /\ y_length = 1 /\ baySizeY = 1 /\ beamSpacingY = 1

ParStart ==
    /\ NODES = EmptyDict
    /\ BEAMS = EmptyDict
    /\ COLUMNS = EmptyDict
    /\ pc = [nodes |-> "nodes", beams |-> "beamsA", columns |-> "columns",
             reruns |-> 0]
    /\ i = [nodes |-> 1, beams |-> 1, columns |-> 1]
    /\ j = [nodes |-> 1, beams |-> 1, columns |-> 1]
    /\ k = [nodes |-> 1, beams |-> 1, columns |-> 1]

InitPar == (ParSmallParams \/ ParLongRowParams) /\ ParStart

ParAdvance(g, jmax, kmax) ==
    IF k[g] < kmax
    THEN i' = i /\ j' = j /\ k' = [k EXCEPT ![g] = @ + 1]
    ELSE IF j[g] < jmax
    THEN i' = i /\ j' = [j EXCEPT ![g] = @ + 1] /\ k' = [k EXCEPT ![g] = 1]
    ELSE /\ i' = [i EXCEPT ![g] = @ + 1]
         /\ j' = [j EXCEPT ![g] = 1]
         /\ k' = [k EXCEPT ![g] = 1]

ParRestart(g) ==
    /\ i' = [i EXCEPT ![g] = 1]
    /\ j' = [j EXCEPT ![g] = 1]
    /\ k' = [k EXCEPT ![g] = 1]

ParGenerateNode ==
    /\ pc.nodes = "nodes"
    /\ i.nodes <= NodeLevels
    /\ NODES' = Put(NODES, NodeId(i.nodes, j.nodes, k.nodes),
                    NodeCoord(i.nodes, j.nodes, k.nodes))
    /\ ParAdvance("nodes", nx, ny)
    /\ UNCHANGED <<params, BEAMS, COLUMNS, pc>>

ParNodesDone ==
    /\ pc.nodes = "nodes"
    /\ i.nodes > NodeLevels
    /\ pc' = [pc EXCEPT !.nodes = "done"]
    /\ UNCHANGED <<params, NODES, BEAMS, COLUMNS, i, j, k>>

ParGenerateBeamA ==
    /\ pc.beams = "beamsA"
    /\ i.beams <= ElemLevels
    /\ LET a == BeamNodeA(i.beams, j.beams, k.beams)
       IN  BEAMS' = Put(BEAMS, BeamAId(i.beams, j.beams, k.beams),
                        Element(a, BeamANodeB(a), BeamFix))
    /\ ParAdvance("beams", nx, ny - 1)
    /\ UNCHANGED <<params, NODES, COLUMNS, pc>>

ParBeamsADone ==
    /\ pc.beams = "beamsA"
    /\ i.beams > ElemLevels
    /\ pc' = [pc EXCEPT !.beams = "beamsB"]
    /\ ParRestart("beams")
    /\ UNCHANGED <<params, NODES, BEAMS, COLUMNS>>

ParGenerateBeamB ==
    /\ pc.beams = "beamsB"
    /\ i.beams <= ElemLevels
    /\ LET a == BeamNodeA(i.beams, j.beams, k.beams)
       IN  BEAMS' = Put(BEAMS, BeamBId(i.beams, j.beams, k.beams),
                        Element(a, BeamBNodeB(a), BeamFix))
    /\ ParAdvance("beams", nx - 1, ny)
    /\ UNCHANGED <<params, NODES, COLUMNS, pc>>

ParBeamsBDone ==
    /\ pc.beams = "beamsB"
    /\ i.beams > ElemLevels
    /\ pc' = [pc EXCEPT !.beams = "done"]
    /\ UNCHANGED <<params, NODES, BEAMS, COLUMNS, i, j, k>>

\* (variant: a column is stored only if its lower node is already in NODES)
ParGenerateColumn_ReadsNodes ==
    /\ pc.columns = "columns"
    /\ i.columns <= ElemLevels
    /\ LET a == ColumnNodeA(i.columns, j.columns, k.columns)
       IN  COLUMNS' = IF a \in DOMAIN NODES
                      THEN Put(COLUMNS,
                               ColumnId(i.columns, j.columns, k.columns),
                               Element(a, ColumnNodeB(a), ColumnFix))
                      ELSE COLUMNS
    /\ ParAdvance("columns", nbx, nby)
    /\ UNCHANGED <<params, NODES, BEAMS, pc>>

ParGenerateColumn ==
    /\ pc.columns = "columns"
    /\ i.columns <= ElemLevels
    /\ LET a == ColumnNodeA(i.columns, j.columns, k.columns)
       IN  COLUMNS' = Put(COLUMNS, ColumnId(i.columns, j.columns, k.columns),
                          Element(a, ColumnNodeB(a), ColumnFix))
    /\ ParAdvance("columns", nbx, nby)
    /\ UNCHANGED <<params, NODES, BEAMS, pc>>

ParColumnsDone ==
    /\ pc.columns = "columns"
    /\ i.columns > ElemLevels
    /\ pc' = [pc EXCEPT !.columns = "done"]
    /\ UNCHANGED <<params, NODES, BEAMS, COLUMNS, i, j, k>>

\* a finished cell is run again: NODES={} / BEAMS={} / COLUMNS={} and the
\* loops from the start
RerunNodes ==
    /\ pc.nodes = "done"
    /\ pc.reruns < MaxReruns
    /\ NODES' = EmptyDict
    /\ pc' = [pc EXCEPT !.nodes = "nodes", !.reruns = @ + 1]
    /\ ParRestart("nodes")
    /\ UNCHANGED <<params, BEAMS, COLUMNS>>

RerunBeams ==
    /\ pc.beams = "done"
    /\ pc.reruns < MaxReruns
    /\ BEAMS' = EmptyDict
    /\ pc' = [pc EXCEPT !.beams = "beamsA", !.reruns = @ + 1]
    /\ ParRestart("beams")
    /\ UNCHANGED <<params, NODES, COLUMNS>>

RerunColumns ==
    /\ pc.columns = "done"
    /\ pc.reruns < MaxReruns
    /\ COLUMNS' = EmptyDict
    /\ pc' = [pc EXCEPT !.columns = "columns", !.reruns = @ + 1]
    /\ ParRestart("columns")
    /\ UNCHANGED <<params, NODES, BEAMS>>

NextPar ==
    \/ ParGenerateNode
    \/ ParNodesDone
    \/ ParGenerateBeamA
    \/ ParBeamsADone
    \/ ParGenerateBeamB
    \/ ParBeamsBDone
    \/ ParGenerateColumn
    \/ ParColumnsDone
    \/ RerunNodes
    \/ RerunBeams
    \/ RerunColumns

SpecPar == InitPar /\ [][NextPar]_vars

\* ------------------------------------------- the sequential run, unrolled
\* the loop indices of iteration t (counted from 0) of a loop nest whose
\* inner ranges have jmax and kmax values
Triple(t, jmax, kmax) ==
    <<t \div (jmax * kmax) + 1, (t % (jmax * kmax)) \div kmax + 1,
      (t % kmax) + 1>>

\* a dict filled by iterations 0..n-1, iteration t assigning val[t] to
\* key[t]: each key holds the value of the last iteration that wrote it
Filled(n, key(_), val(_)) ==
    LET T == 0..(n - 1)
        Last(m) == CHOOSE t \in T :
                       /\ key(t) = m
                       /\ \A u \in T : key(u) = m => u <= t
    IN  [m \in {key(t) : t \in T} |-> val(Last(m))]

NodeIndices(t) == Triple(t, nx, ny)

NodeKeyAt(t) ==
    NodeId(NodeIndices(t)[1], NodeIndices(t)[2], NodeIndices(t)[3])

NodeValAt(t) ==
    NodeCoord(NodeIndices(t)[1], NodeIndices(t)[2], NodeIndices(t)[3])

\* pass A has BeamAIterations iterations, pass B follows it
BeamAIterations == ElemLevels * nx * (ny - 1)

BeamBIterations == ElemLevels * (nx - 1) * ny

BeamIndices(t) ==
    IF t < BeamAIterations
    THEN Triple(t, nx, ny - 1)
    ELSE Triple(t - BeamAIterations, nx - 1, ny)

BeamKeyAt(t) ==
    IF t < BeamAIterations
    THEN BeamAId(BeamIndices(t)[1], BeamIndices(t)[2], BeamIndices(t)[3])
    ELSE BeamBId(BeamIndices(t)[1], BeamIndices(t)[2], BeamIndices(t)[3])

BeamValAt(t) ==
    LET a == BeamNodeA(BeamIndices(t)[1], BeamIndices(t)[2], BeamIndices(t)[3])
    IN  IF t < BeamAIterations
        THEN Element(a, BeamANodeB(a), BeamFix)
        ELSE Element(a, BeamBNodeB(a), BeamFix)

ColumnIndices(t) == Triple(t, nbx, nby)

ColumnKeyAt(t) ==
    ColumnId(ColumnIndices(t)[1], ColumnIndices(t)[2], ColumnIndices(t)[3])

ColumnValAt(t) ==
    LET a == ColumnNodeA(ColumnIndices(t)[1], ColumnIndices(t)[2],
                         ColumnIndices(t)[3])
    IN  Element(a, ColumnNodeB(a), ColumnFix)

\* the three mappings at the end of the nodes-beams-columns run
SeqNodes == Filled(NodeLevels * nx * ny, NodeKeyAt, NodeValAt)

SeqBeams == Filled(BeamAIterations + BeamBIterations, BeamKeyAt, BeamValAt)

SeqColumns == Filled(ElemLevels * nbx * nby, ColumnKeyAt, ColumnValAt)

\* ------------------------------------------------------------- properties
Levels == 1..numStories

NodeKeys == DOMAIN NODES

NodesFinished == pc # "nodes"

\* C1: once the node loop has finished, NODES maps id(i,j,k) =
\* 1000*i + (j-1)*(Ly/sy+1) + k to ((j-1)*sx, (k-1)*sy, (i-1)*h) for every
\* level i, x-line j and y-line k, and has no other key.
C1_NodeMappingExact ==
    NodesFinished =>
        /\ \A ii \in Levels, jj \in 1..nx, kk \in 1..ny :
              /\ NodeId(ii, jj, kk) \in NodeKeys
              /\ NODES[NodeId(ii, jj, kk)] = NodeCoord(ii, jj, kk)
        /\ \A n \in NodeKeys :
              \E ii \in Levels, jj \in 1..nx, kk \in 1..ny : n = NodeId(ii, jj, kk)

\* the number of iterations the node loop has run
NodeIterations ==
    IF pc = "nodes" THEN (i - 1) * nx * ny + (j - 1) * ny + (k - 1)
    ELSE numStories * nx * ny

\* C2: distinct (level, x-line, y-line) triples get distinct identifiers:
\* NODES has one entry per iteration run so far, and so ends with
\* levels * nx * ny entries.
C2_NodeCount ==
    Cardinality(NodeKeys) = NodeIterations

Beams == {BEAMS[m] : m \in DOMAIN BEAMS}

Columns == {COLUMNS[m] : m \in DOMAIN COLUMNS}

Endpoints(e) == {e.nodeA, e.nodeB}

\* C3: every nodeA and nodeB of every beam and column is a key of NODES.
C3_EndpointsExist ==
    NodesFinished =>
        \A e \in Beams \cup Columns : Endpoints(e) \subseteq NodeKeys

\* all three generators have run
Finished == pc = "done"

BayAddress(l, jj, kk) ==
    RAdd(RAdd(RInt(1000 * l), RMul(RInt(jj - 1), RowStride)),
         RAdd(RInt(1), RMul(RInt(kk - 1), TrueDiv(baySizeY, beamSpacingY))))

Aligned ==
    /\ x_length % baySizeX = 0 /\ baySizeX % beamSpacingX = 0
    /\ y_length % baySizeY = 0 /\ baySizeY % beamSpacingY = 0

\* C6: for aligned parameters every column stands on a bay corner: its nodeA
\* is a node whose x is a multiple of baySizeX and whose y is a multiple of
\* baySizeY.
C6_ColumnsAtBayCorners ==
    Aligned =>
        \A c \in Columns :
            /\ c.nodeA \in NodeKeys
            /\ NODES[c.nodeA][1] % baySizeX = 0
            /\ NODES[c.nodeA][2] % baySizeY = 0

\* C7: beam identifiers never collide, so an entry of BEAMS, once written, is
\* never overwritten by another beam.
C7_NoBeamOverwritten ==
    [][\A m \in DOMAIN BEAMS : m \in DOMAIN BEAMS' /\ BEAMS'[m] = BEAMS[m]]_vars

\* C8: floor(id/1000) of a node identifier is the level the node was
\* generated for, and lies in 1..levels.
C8_LevelRecoverable ==
    \A n \in NodeKeys :
        /\ Floor(RMul(n, <<1, 1000>>)) = (NODES[n][3] \div storyHeight) + 1
        /\ Floor(RMul(n, <<1, 1000>>)) \in Levels

GroundNode(n) == n \in NodeKeys /\ NODES[n][3] = 0

ColumnIterations ==
    IF pc = "columns" THEN (i - 1) * nbx * nby + (j - 1) * nby + (k - 1)
    ELSE IF pc = "done" THEN (numStories - 1) * nbx * nby
    ELSE 0

\* C10: distinct column loop triples get distinct identifiers: COLUMNS has one
\* entry per iteration run so far, and so ends with
\* (S-1) * (ceil(Lx/baySizeX)+1) * (ceil(Ly/baySizeY)+1) entries.
C10_ColumnCount ==
    Cardinality(DOMAIN COLUMNS) = ColumnIterations

NothingWritten ==
    /\ NODES = EmptyDict
    /\ BEAMS = EmptyDict
    /\ COLUMNS = EmptyDict

\* C11: when the parameters give more than 999 nodes per level, generation
\* reports a capacity overflow and stops: no node, beam or column is written.
C11_OverflowRejected ==
    nx * ny > 999 => NothingWritten

\* C12: when a parameter is not positive, generation fails before it starts:
\* no node, beam or column is written.
C12_InvalidRejected ==
    (\E p \in {storyHeight, numStories, x_length, y_length,
               baySizeX, baySizeY, beamSpacingX, beamSpacingY} : p <= 0)
        => NothingWritten

\* an identifier without fractional part
Whole(n) == n[2] = 1

\* each footprint length a multiple of the beam spacing and of the bay size,
\* each bay size a multiple of the beam spacing
Integral ==
    /\ Aligned
    /\ x_length % beamSpacingX = 0
    /\ y_length % beamSpacingY = 0

\* C13: with integral parameters every node identifier and every nodeA and
\* nodeB of every beam and column is a whole number.
C13_WholeIdentifiers ==
    Integral =>
        /\ \A n \in NodeKeys : Whole(n)
        /\ \A e \in Beams \cup Columns : \A n \in Endpoints(e) : Whole(n)

\* generation has finished on integral parameters whose bays hold more than
\* one beam spacing
C13_Witness ==
    /\ Finished
    /\ Integral
    /\ baySizeY > beamSpacingY
    /\ Beams # {}
    /\ Columns # {}

\* node b lies further than node a along exactly the coordinate c (1 = x,
\* 2 = y, 3 = z) and nowhere else
Further(a, b, c) ==
    /\ {a, b} \subseteq NodeKeys
    /\ NODES[b][c] > NODES[a][c]
    /\ \A d \in {1, 2, 3} \ {c} : NODES[b][d] = NODES[a][d]

\* C14: nodeB of every element is the node further than nodeA in the
\* positive direction: in y for a pass-A beam, in x for a pass-B beam, in z
\* for a column, all other coordinates being equal.
C14_NodeBFurther ==
    Finished =>
        /\ \A e \in Beams :
              IF e.nodeB = RAdd(e.nodeA, RInt(1))
              THEN Further(e.nodeA, e.nodeB, 2)
              ELSE Further(e.nodeA, e.nodeB, 1)
        /\ \A e \in Columns : Further(e.nodeA, e.nodeB, 3)

\* the levels whose stored elevation is the one of node n
LevelsOf(n) == {l \in Levels : NODES[n][3] = (l - 1) * storyHeight}

FixCode(f) ==
    /\ Len(f) = 6
    /\ \A c \in 1..6 : f[c] \in {"F", "R"}

\* C16: Every element record carries the fixed attribute block: type 1,
\* section 1, rotation 0, six zero offsets, cable and tension-only flags 0;
\* fixA and fixB are six characters, each F or R: FFFFFR on every beam of
\* both passes and FFFFFF on every column.
C16_AttributeBlock ==
    /\ \A e \in Beams \cup Columns :
          /\ e.typ = 1 /\ e.sectID = 1 /\ e.rot = 0
          /\ e.offAX = 0 /\ e.offAY = 0 /\ e.offAZ = 0
          /\ e.offBX = 0 /\ e.offBY = 0 /\ e.offBZ = 0
          /\ e.cbl = 0 /\ e.tc = 0
          /\ FixCode(e.fixA) /\ FixCode(e.fixB)
    /\ \A e \in Beams :
          /\ e.fixA = <<"F", "F", "F", "F", "F", "R">>
          /\ e.fixB = <<"F", "F", "F", "F", "F", "R">>
    /\ \A e \in Columns :
          /\ e.fixA = <<"F", "F", "F", "F", "F", "F">>
          /\ e.fixB = <<"F", "F", "F", "F", "F", "F">>

\* beams of both passes and a column are in the mappings
C16_Witness ==
    /\ Finished
    /\ \E e \in Beams : e.nodeB = RAdd(e.nodeA, RInt(1))
    /\ \E e \in Beams : e.nodeB # RAdd(e.nodeA, RInt(1))
    /\ Columns # {}

ExampleParams == params = <<18, 4, 120, 120, 30, 30, 30, 10>>

\* C18: With storyHeight=18, four levels, a 120 by 120 footprint, 30 by 30
\* bays and beam spacings 30 and 10, there are 260 nodes, node 1001 is at
\* (0,0,0) and node 2001 at (0,0,18), column 101001 (level 1, j=1, k=1)
\* joins 1001 to 2001, and the pass-A beam 21001 joins 2001 to 2002.
C18_Example ==
    (ExampleParams /\ Finished) =>
        /\ Cardinality(NodeKeys) = 260
        /\ RInt(1001) \in NodeKeys /\ NODES[RInt(1001)] = <<0, 0, 0>>
        /\ RInt(2001) \in NodeKeys /\ NODES[RInt(2001)] = <<0, 0, 18>>
        /\ ColumnId(1, 1, 1) \in DOMAIN COLUMNS
        /\ COLUMNS[ColumnId(1, 1, 1)].nodeA = RInt(1001)
        /\ COLUMNS[ColumnId(1, 1, 1)].nodeB = RInt(2001)
        /\ BeamAId(1, 1, 1) \in DOMAIN BEAMS
        /\ BEAMS[BeamAId(1, 1, 1)].nodeA = RInt(2001)
        /\ BEAMS[BeamAId(1, 1, 1)].nodeB = RInt(2002)
        /\ NODES[RInt(2002)] = <<0, 10, 18>>

C18_Witness ==
    /\ ExampleParams
    /\ Finished
    /\ Cardinality(DOMAIN BEAMS) > 0
    /\ Cardinality(DOMAIN COLUMNS) > 0

\* the entries of the beam mapping that join node a to node b
Joining(a, b) ==
    {m \in DOMAIN BEAMS : BEAMS[m].nodeA = a /\ BEAMS[m].nodeB = b}

\* C19: After both beam passes every pair of grid-adjacent nodes on a level
\* in 2..numStories (neighbouring y-lines on one x-line, or neighbouring
\* x-lines on one y-line) is joined by exactly one entry of the beam mapping,
\* which therefore has (numStories-1) * (nx*(ny-1) + (nx-1)*ny) entries.
C19_BeamCoverage ==
    Finished =>
        /\ \A l \in 2..numStories : \A jj \in 1..nx : \A kk \in 1..(ny - 1) :
              Cardinality(Joining(NodeId(l, jj, kk), NodeId(l, jj, kk + 1))) = 1
        /\ \A l \in 2..numStories : \A jj \in 1..(nx - 1) : \A kk \in 1..ny :
              Cardinality(Joining(NodeId(l, jj, kk), NodeId(l, jj + 1, kk))) = 1
        /\ Cardinality(DOMAIN BEAMS)
              = (numStories - 1) * (nx * (ny - 1) + (nx - 1) * ny)

\* C20: Every generated node lies inside the building envelope:
\* 0 <= x <= x_length, 0 <= y <= y_length and
\* 0 <= z <= storyHeight * (numStories - 1), also when a footprint length
\* is no multiple of the beam spacing.
C20_InsideEnvelope ==
    \A n \in NodeKeys :
        /\ 0 <= NODES[n][1] /\ NODES[n][1] <= x_length
        /\ 0 <= NODES[n][2] /\ NODES[n][2] <= y_length
        /\ 0 <= NODES[n][3] /\ NODES[n][3] <= storyHeight * (numStories - 1)

\* the unrolled loops give what the sequential run leaves behind
SequentialRunUnrolled ==
    Finished => NODES = SeqNodes /\ BEAMS = SeqBeams /\ COLUMNS = SeqColumns

====
